---- MODULE Spec2Model ----
(***************************************************************************)
(* Model of the generation / evaluation / regeneration / review / analysis *)
(* workflow of the Java peer code review trainer.                          *)
(*   src/workflow/node.py        node handlers (WorkflowNodes)             *)
(*   src/workflow/conditions.py  the two routing decisions                 *)
(*   src/workflow/builder.py     the edges that sequence the nodes         *)
(*   src/utils/code_utils.py     response parser, error count, prompts     *)
(*   src/ui/review_tab.py        review submission by the host             *)
(***************************************************************************)
EXTENDS Integers, Sequences, FiniteSets, TLC

\* ------------------------------------------------------------------------
\* Bounds of the model
\* ------------------------------------------------------------------------
\* largest configured max_evaluation_attempts
MaxEvalBudget == 3
\* largest configured max_iterations
MaxIterBudget == 2
\* largest number of explicitly selected errors
MaxSelected == 2
\* largest number of selected error categories
MaxCategories == 1
\* executions of evaluate_code_node followed in one run of the graph
MaxEvalRuns == 4
\* review submissions followed in one session
MaxSubmissions == 2
\* analyze_review_node calls that store an analysis, followed in one session
MaxAnalyzeRuns == 3
\* largest identified_count / total_problems the review comparator reports
MaxReported == 2
\* fenced blocks in one response of the generator
MaxBlocks == 2

\* ------------------------------------------------------------------------
\* Python values
\* ------------------------------------------------------------------------
\* Python None where an object or a dict is expected; a dict is a record, and
\* a key the dict does not have is a field the record does not have
None == [none |-> TRUE]
\* Python None where a string is expected
Null == "None"

\* get_field_value(data, english_name, default); the translated spellings of
\* a key are not used by the workflow's own dicts
get_field_value(data, english_name, default) ==
  IF data = None THEN default
  ELSE IF english_name \in DOMAIN data THEN data[english_name]
  ELSE default

\* str.upper() on the type labels that occur
Upper(s) ==
  CASE s = "java_error" -> "JAVA_ERROR"
    [] s = "logical" -> "LOGICAL"
    [] OTHER -> s

\* the elements of s that are not in drop, in order
RECURSIVE SeqReject(_, _)
SeqReject(s, drop) ==
  IF s = <<>> THEN <<>>
  ELSE IF Head(s) \in drop THEN SeqReject(Tail(s), drop)
       ELSE <<Head(s)>> \o SeqReject(Tail(s), drop)

Max2(a, b) == IF a >= b THEN a ELSE b

\* ------------------------------------------------------------------------
\* ErrorSpec records
\* ------------------------------------------------------------------------
NameOf(i) == CASE i = 1 -> "e1" [] i = 2 -> "e2" [] i = 3 -> "e3" [] OTHER -> "e4"

\* an error as the error selector stores it (src/ui/error_selector.py:234-237)
SelectedError(i) == [type |-> "java_error", name |-> NameOf(i)]

\* an error record as the catalog may hand it out: keyed by name, keyed by
\* error_name only, or without any name
CatalogKeyings == {"name", "error_name", "unnamed"}
CatalogError(i, keyed) ==
  CASE keyed = "name" -> [type |-> "logical", name |-> NameOf(i)]
    [] keyed = "error_name" -> [error_name |-> NameOf(i)]
    [] OTHER -> [type |-> "logical", description |-> NameOf(i)]

\* f"{error.get('type', '').upper()} - {error.get('name', '')}"
FormatError(e) ==
  << Upper(get_field_value(e, "type", "")), get_field_value(e, "name", "") >>

RECURSIVE FormatErrors(_)
FormatErrors(errs) ==
  IF errs = <<>> THEN <<>> ELSE <<FormatError(Head(errs))>> \o FormatErrors(Tail(errs))

\* ------------------------------------------------------------------------
\* Response parser (src/utils/code_utils.py)
\* ------------------------------------------------------------------------
\* A response text is a sequence of fenced blocks; a block has the tag that
\* follows its opening fence and its lines.  "err" is a line that carries
\* an inline "// ERROR:" comment, "stmt" a line that does not.
Block(tag, body) == [tag |-> tag, body |-> body]

\* re.findall(r'```<tag>\s*(.*?)\s*```'): the captures of the blocks whose
\* opening fence starts with the tag; what is left of the block's own tag
\* is captured as the first line
TagRest(tag, pat) ==
  CASE pat = tag -> <<>>
    [] pat = "java" /\ tag = "java-annotated" -> <<"-annotated">>
    [] pat = "java" /\ tag = "java-clean" -> <<"-clean">>
    [] pat = "" -> <<tag>>
    [] OTHER -> <<>>

TagMatches(tag, pat) ==
  \/ pat = ""
  \/ pat = tag
  \/ pat = "java" /\ tag \in {"java-annotated", "java-clean"}

RECURSIVE FindAll(_, _)
FindAll(blocks, pat) ==
  IF blocks = <<>> THEN <<>>
  ELSE IF TagMatches(Head(blocks).tag, pat)
       THEN <<TagRest(Head(blocks).tag, pat) \o Head(blocks).body>> \o FindAll(Tail(blocks), pat)
       ELSE FindAll(Tail(blocks), pat)

\* max(any_matches, key=len): the first of the longest captures
RECURSIVE Largest(_)
Largest(ms) ==
  IF Len(ms) = 1 THEN Head(ms)
  ELSE LET rest == Largest(Tail(ms))
       IN IF Len(Head(ms)) >= Len(rest) THEN Head(ms) ELSE rest

extract_both_code_versions(response) ==
  IF response = <<>> THEN [annotated |-> <<>>, clean |-> <<>>]
  ELSE
    LET annotated_matches == FindAll(response, "java-annotated")
        clean_matches == FindAll(response, "java-clean")
        tagged == IF annotated_matches # <<>> THEN annotated_matches[1] ELSE <<>>
        clean0 == IF clean_matches # <<>> THEN clean_matches[1] ELSE <<>>
        java_matches == FindAll(response, "java")
        any_matches == FindAll(response, "")
        annotated_code ==
          IF tagged # <<>> THEN tagged
          ELSE IF java_matches # <<>> THEN java_matches[1]
          ELSE IF any_matches # <<>> THEN Largest(any_matches)
          ELSE <<>>
        clean_code ==
          IF annotated_code # <<>> /\ clean0 = <<>>
          THEN SeqReject(annotated_code, {"err"})
          ELSE clean0
    IN [annotated |-> annotated_code, clean |-> clean_code]

\* the responses the generator is taken to return in the workflow
GoodResponse ==
  << Block("java-annotated", <<"stmt", "err">>), Block("java-clean", <<"stmt">>) >>
\* None and the empty text are both the empty sequence: "if not response"
EmptyResponse == <<>>
Responses == {EmptyResponse, GoodResponse}

\* ------------------------------------------------------------------------
\* Session state
\* ------------------------------------------------------------------------
VARIABLES
  state,      \* the WorkflowState of the session
  explore,    \* the phase whose collaborators are followed through all their outcomes
  wired,      \* which collaborators the WorkflowNodes object has
  pc,         \* the node or routing decision the graph executes next
  decision,   \* what the last routing decision returned, "none" after a node
  evalRuns,   \* executions of evaluate_code_node since the graph was entered
  regenRuns,  \* executions of regenerate_code_node since the graph was entered
  firstCmp,   \* what the comparator reported on the first evaluation
  allMissing, \* every comparator call so far reported every requested error missing
  stored,     \* analyze_review_node calls that stored an analysis
  allShort,   \* every stored analysis had identified_count < total_problems, not sufficient
  submissions, \* reviews submitted by the host
  submitters, \* the submit callbacks in flight at once: where each one stands and the
              \* local variables it holds; the empty tuple when the host runs one at a time
  last        \* the node handler that ran last: whether the host called it, whether it
              \* ended in an error branch, whether it stored its result, and what the
              \* collaborator it consulted had returned

vars == << state, explore, wired, pc, decision, evalRuns, regenRuns, firstCmp, allMissing,
           stored, allShort, submissions, last, submitters >>

\* the domain vocabulary (src/workflow/node.py:67-71), two of its labels
Domains == {"banking", "logging"}

\* CodeSnippet(code=..., clean_code=..., raw_errors={"java_errors": ...},
\* expected_error_count=...)
CodeSnippet(code, clean_code, java_errors, expected_error_count) ==
  [code |-> code, clean_code |-> clean_code,
   raw_errors |-> [java_errors |-> java_errors],
   expected_error_count |-> expected_error_count]

\* the default of CodeSnippet.expected_error_count when the constructor is
\* not given one
DefaultExpectedErrorCount == 0

\* WorkflowState(): the session at its start, before generation
WorkflowState(maxEval, maxIter, specific, categories, difficulty) ==
  [current_step |-> "generate",
   code_length |-> "medium",
   difficulty_level |-> difficulty,
   domain |-> Null,
   selected_error_categories |-> [java_errors |-> categories],
   selected_specific_errors |-> specific,
   code_snippet |-> None,
   original_error_count |-> 0,
   evaluation_attempts |-> 0,
   max_evaluation_attempts |-> maxEval,
   evaluation_result |-> None,
   code_generation_feedback |-> None,
   current_iteration |-> 1,
   max_iterations |-> maxIter,
   review_sufficient |-> FALSE,
   review_history |-> <<>>,
   error |-> Null]

SelectedErrors(k) == [i \in 1..k |-> SelectedError(i)]
CatalogErrors(n, keyed) == [i \in 1..n |-> CatalogError(i, keyed)]
CategoryNames(c) == [i \in 1..c |-> IF i = 1 THEN "Logical" ELSE IF i = 2 THEN "Syntax" ELSE "Quality"]

\* ------------------------------------------------------------------------
\* get_error_count_from_state (src/utils/code_utils.py)
\* ------------------------------------------------------------------------
difficulty_map(difficulty_level) ==
  CASE difficulty_level = "easy" -> 2
    [] difficulty_level = "medium" -> 4
    [] difficulty_level = "hard" -> 6
    [] OTHER -> 4

get_error_count_from_state(s, difficulty_level) ==
  IF Len(s.selected_specific_errors) > 0 THEN Len(s.selected_specific_errors)
  ELSE IF s.original_error_count > 0 THEN s.original_error_count
  ELSE IF Len(get_field_value(s.selected_error_categories, "java_errors", <<>>)) > 0
       THEN Max2(Len(get_field_value(s.selected_error_categories, "java_errors", <<>>)), 2)
  ELSE difficulty_map(difficulty_level)

\* ------------------------------------------------------------------------
\* WorkflowNodes._extract_requested_errors (src/workflow/node.py)
\* ------------------------------------------------------------------------
\* the in-place normalisation of one error dict (type and name filled in)
NormalizeError(error) ==
  LET e1 == IF "type" \in DOMAIN error THEN error ELSE error @@ ("type" :> "java_error")
      e2 == IF "name" \notin DOMAIN e1 /\ "error_name" \in DOMAIN e1
            THEN e1 @@ ("name" :> e1.error_name) ELSE e1
      e3 == IF "name" \notin DOMAIN e2 /\ "check_name" \in DOMAIN e2
            THEN e2 @@ ("name" :> e2.check_name) ELSE e2
  IN e3

RECURSIVE NormalizeErrors(_)
NormalizeErrors(errs) ==
  IF errs = <<>> THEN <<>> ELSE <<NormalizeError(Head(errs))>> \o NormalizeErrors(Tail(errs))

RECURSIVE NamedErrors(_)
NamedErrors(errs) ==
  IF errs = <<>> THEN <<>>
  ELSE IF "name" \in DOMAIN Head(errs) THEN <<Head(errs)>> \o NamedErrors(Tail(errs))
       ELSE NamedErrors(Tail(errs))

RECURSIVE NamedAndTyped(_)
NamedAndTyped(errs) ==
  IF errs = <<>> THEN <<>>
  ELSE IF "name" \in DOMAIN Head(errs) /\ "type" \in DOMAIN Head(errs)
       THEN <<Head(errs)>> \o NamedAndTyped(Tail(errs))
       ELSE NamedAndTyped(Tail(errs))

\* the list the method returns
extract_requested_errors(s) ==
  IF s.code_snippet = None THEN <<>>
  ELSE LET fromSnippet == NamedErrors(NormalizeErrors(s.code_snippet.raw_errors.java_errors))
       IN IF fromSnippet # <<>> THEN fromSnippet
          ELSE NamedAndTyped(s.selected_specific_errors)

\* the session after the method: the dicts of the snippet's list are the ones
\* the method writes to
AfterExtract(s) ==
  IF s.code_snippet = None THEN s
  ELSE [s EXCEPT !.code_snippet.raw_errors.java_errors = NormalizeErrors(@)]

\* ------------------------------------------------------------------------
\* WorkflowNodes.generate_code_node (src/workflow/node.py)
\* ------------------------------------------------------------------------
\* catalog: the list error_repository.get_errors_for_llm returns
\* gen:     [kind |-> "raise"] or [kind |-> "ok", response |-> r], what the
\*          catalog and code_generator._generate_with_llm do
\* pick:    the domain random.choice draws
\* generate_code_node, were it to take the count asked of the catalog for the
\* count of the errors it got
generate_code_node_nominal(s, pick, catalog, gen) ==
  LET s1 == [s EXCEPT !.evaluation_attempts = 0,
                      !.evaluation_result = None,
                      !.code_generation_feedback = None]
      s2 == IF s1.domain = Null THEN [s1 EXCEPT !.domain = pick] ELSE s1
      selected_specific_errors == s.selected_specific_errors
      using_specific_errors == Len(selected_specific_errors) > 0
      required_error_count == get_error_count_from_state(s2, s2.difficulty_level)
      selected_errors ==
        IF using_specific_errors THEN selected_specific_errors
        ELSE IF Len(catalog) > required_error_count
             THEN SubSeq(catalog, 1, required_error_count)
             ELSE catalog
      original_error_count ==
        IF using_specific_errors THEN Len(selected_errors)
        ELSE required_error_count
      parsed == extract_both_code_versions(gen.response)
  IN IF ~using_specific_errors
        /\ Len(get_field_value(s2.selected_error_categories, "java_errors", <<>>)) = 0
     THEN [s2 EXCEPT !.error = "no_categories"]
     ELSE IF gen.kind = "raise"
     THEN [s2 EXCEPT !.error = "error generating code"]
     ELSE [s2 EXCEPT !.original_error_count = original_error_count,
                     !.code_snippet = CodeSnippet(parsed.annotated, parsed.clean,
                                                  selected_errors, original_error_count),
                     !.current_step = "evaluate"]

\* generate_code_node, were it to draw a domain on every call
generate_code_node_redrawing(s, pick, catalog, gen) ==
  LET s1 == [s EXCEPT !.evaluation_attempts = 0,
                      !.evaluation_result = None,
                      !.code_generation_feedback = None]
      s2 == [s1 EXCEPT !.domain = pick]
      selected_specific_errors == s.selected_specific_errors
      using_specific_errors == Len(selected_specific_errors) > 0
      required_error_count == get_error_count_from_state(s2, s2.difficulty_level)
      selected_errors ==
        IF using_specific_errors THEN selected_specific_errors
        ELSE IF Len(catalog) > required_error_count
             THEN SubSeq(catalog, 1, required_error_count)
             ELSE catalog
      original_error_count ==
        IF using_specific_errors THEN Len(selected_errors)
        ELSE IF Len(catalog) < required_error_count THEN Len(catalog)
        ELSE required_error_count
      parsed == extract_both_code_versions(gen.response)
  IN IF ~using_specific_errors
        /\ Len(get_field_value(s2.selected_error_categories, "java_errors", <<>>)) = 0
     THEN [s2 EXCEPT !.error = "no_categories"]
     ELSE IF gen.kind = "raise"
     THEN [s2 EXCEPT !.error = "error generating code"]
     ELSE [s2 EXCEPT !.original_error_count = original_error_count,
                     !.code_snippet = CodeSnippet(parsed.annotated, parsed.clean,
                                                  selected_errors, original_error_count),
                     !.current_step = "evaluate"]

generate_code_node_keeping(s, pick, catalog, gen) ==
  LET s1 == s
      s2 == IF s1.domain = Null THEN [s1 EXCEPT !.domain = pick] ELSE s1
      selected_specific_errors == s.selected_specific_errors
      using_specific_errors == Len(selected_specific_errors) > 0
      required_error_count == get_error_count_from_state(s2, s2.difficulty_level)
      selected_errors ==
        IF using_specific_errors THEN selected_specific_errors
        ELSE IF Len(catalog) > required_error_count
             THEN SubSeq(catalog, 1, required_error_count)
             ELSE catalog
      original_error_count ==
        IF using_specific_errors THEN Len(selected_errors)
        ELSE IF Len(catalog) < required_error_count THEN Len(catalog)
        ELSE required_error_count
      parsed == extract_both_code_versions(gen.response)
  IN IF ~using_specific_errors
        /\ Len(get_field_value(s2.selected_error_categories, "java_errors", <<>>)) = 0
     THEN [s2 EXCEPT !.error = "no_categories"]
     ELSE IF gen.kind = "raise"
     THEN [s2 EXCEPT !.error = "error generating code"]
     ELSE [s2 EXCEPT !.original_error_count = original_error_count,
                     !.code_snippet = CodeSnippet(parsed.annotated, parsed.clean,
                                                  selected_errors, original_error_count),
                     !.current_step = "evaluate"]

generate_code_node(s, pick, catalog, gen) ==
  LET s1 == [s EXCEPT !.evaluation_attempts = 0,
                      !.evaluation_result = None,
                      !.code_generation_feedback = None]
      s2 == IF s1.domain = Null THEN [s1 EXCEPT !.domain = pick] ELSE s1
      selected_specific_errors == s.selected_specific_errors
      using_specific_errors == Len(selected_specific_errors) > 0
      required_error_count == get_error_count_from_state(s2, s2.difficulty_level)
      selected_errors ==
        IF using_specific_errors THEN selected_specific_errors
        ELSE IF Len(catalog) > required_error_count
             THEN SubSeq(catalog, 1, required_error_count)
             ELSE catalog
      original_error_count ==
        IF using_specific_errors THEN Len(selected_errors)
        ELSE IF Len(catalog) < required_error_count THEN Len(catalog)
        ELSE required_error_count
      parsed == extract_both_code_versions(gen.response)
  IN IF ~using_specific_errors
        /\ Len(get_field_value(s2.selected_error_categories, "java_errors", <<>>)) = 0
     THEN [s2 EXCEPT !.error = "no_categories"]
     ELSE IF gen.kind = "raise"
     THEN [s2 EXCEPT !.error = "error generating code"]
     ELSE [s2 EXCEPT !.original_error_count = original_error_count,
                     !.code_snippet = CodeSnippet(parsed.annotated, parsed.clean,
                                                  selected_errors, original_error_count),
                     !.current_step = "evaluate"]

\* what the generator does on one call
GeneratorOutcomes ==
  IF explore = "generation"
  THEN {[kind |-> "raise", response |-> EmptyResponse]}
         \cup {[kind |-> "ok", response |-> r] : r \in Responses}
  ELSE {[kind |-> "ok", response |-> GoodResponse]}

\* the domains random.choice may draw
DomainChoices == IF explore = "generation" THEN Domains ELSE {"banking"}

\* what the catalog returns when asked for count errors: fewer, as many, or
\* more, keyed by name; or as many, keyed otherwise
CatalogAnswers(count) ==
  IF explore = "generation"
  THEN {CatalogErrors(n, "name") : n \in 0..(count + 1)}
         \cup {CatalogErrors(count, keyed) : keyed \in CatalogKeyings}
  ELSE {CatalogErrors(count, "name"), <<>>}

\* ------------------------------------------------------------------------
\* create_regeneration_prompt (src/utils/code_utils.py)
\* ------------------------------------------------------------------------
\* the prompt is its template filled with these values
create_regeneration_prompt(code, domain, missing_errors, found_errors, requested_errors) ==
  [code |-> code, domain |-> domain, missing_text |-> missing_errors,
   found_text |-> found_errors, total_requested |-> Len(requested_errors)]

\* the prompt of code_evaluation.generate_improved_prompt, when the
\* evaluator has that method
ImprovedPrompt(code, requested_errors, evaluation_result) ==
  [code |-> code, improved |-> TRUE,
   missing_text |-> get_field_value(evaluation_result, "missing_errors", <<>>),
   total_requested |-> Len(requested_errors)]

\* ------------------------------------------------------------------------
\* WorkflowNodes.evaluate_code_node (src/workflow/node.py)
\* ------------------------------------------------------------------------
\* a node that trusts the comparator's own valid hint
valid_from_hint(raw) ==
  get_field_value(raw, "valid", FALSE)

\* the valid flag the node forces on the comparator's dict: no missing errors
valid_from_missing(raw) ==
  ~(Len(get_field_value(raw, "missing_errors", <<>>)) > 0)

\* state.evaluation_attempts += 1
count_attempt(evaluation_attempts) == evaluation_attempts + 1

\* cmp:    what code_evaluation.evaluate_code does: [kind |-> "raise"],
\*         [kind |-> "nondict"] or [kind |-> "dict", result |-> the dict]
\* prompt: "ok" or "raise", what generate_improved_prompt does when called
evaluate_code_node(s, cmp, prompt) ==
  IF s.code_snippet = None THEN [s EXCEPT !.error = "no_code_snippet_evaluation"]
  ELSE
    LET code == s.code_snippet.code
        requested_errors == extract_requested_errors(s)
        requested_count == Len(requested_errors)
        s0 == AfterExtract(s)
        fromSnippet == IF s0.original_error_count = 0
                       THEN s0.code_snippet.expected_error_count
                       ELSE s0.original_error_count
        original_error_count == IF fromSnippet = 0 THEN requested_count ELSE fromSnippet
        s1 == [s0 EXCEPT !.original_error_count = original_error_count]
        evaluation_result ==
          IF cmp.kind = "nondict"
          THEN [found_errors |-> <<>>,
                missing_errors |-> FormatErrors(requested_errors),
                valid |-> FALSE,
                feedback |-> "Error in evaluation",
                original_error_count |-> original_error_count]
          ELSE ("original_error_count" :> original_error_count)
                 @@ ("valid" :> valid_from_missing(cmp.result))
                 @@ cmp.result
        s2 == [s1 EXCEPT !.evaluation_result = evaluation_result,
                         !.evaluation_attempts = count_attempt(@)]
        found_errors == get_field_value(evaluation_result, "found_errors", <<>>)
        missing_count == Len(get_field_value(evaluation_result, "missing_errors", <<>>))
        needs_regeneration == missing_count > 0
        feedback ==
          IF missing_count > 0
          THEN IF wired.improved
               THEN ImprovedPrompt(code, requested_errors, evaluation_result)
               ELSE create_regeneration_prompt(code, s.domain,
                      get_field_value(evaluation_result, "missing_errors", <<>>),
                      found_errors, requested_errors)
          ELSE create_regeneration_prompt(code, s.domain, <<>>, found_errors, requested_errors)
        s3 == [s2 EXCEPT !.code_generation_feedback = feedback]
        evaluation_valid == get_field_value(evaluation_result, "valid", FALSE)
        next_step ==
          IF evaluation_valid THEN "review"
          ELSE IF needs_regeneration /\ s3.evaluation_attempts < s3.max_evaluation_attempts
               THEN "regenerate"
          ELSE "review"
    IN IF cmp.kind = "raise" THEN [s1 EXCEPT !.error = "Error evaluating code"]
       ELSE IF missing_count > 0 /\ wired.improved /\ prompt = "raise"
       THEN [s2 EXCEPT !.error = "Error evaluating code"]
       ELSE [s3 EXCEPT !.current_step = next_step]

\* the call reached "state.evaluation_result = evaluation_result"
evaluation_stored(s, cmp) == s.code_snippet # None /\ cmp.kind # "raise"

\* the strings the comparator may put into its lists: the requested errors,
\* formatted, split into those it reports missing and those it reports found
Splits(names) ==
  {[missing |-> SubSeq(names, 1, j), found |-> SubSeq(names, j + 1, Len(names))] :
     j \in 0..Len(names)}

\* the dicts the comparator may return for a list of requested errors: each
\* of the keys may be absent, and the valid hint is the comparator's own
ComparatorDicts(names) ==
  LET full == {("missing_errors" :> sp.missing) @@ ("found_errors" :> sp.found) :
                 sp \in Splits(names)}
      withExtra == {d @@ ("extra_errors" :> <<<<"JAVA_ERROR", "unrequested">>>>) : d \in full}
      noMissing == {("found_errors" :> names)}
      noFound == {("missing_errors" :> names)}
      withValid == {("valid" :> TRUE), ("valid" :> FALSE)}
  IN {d @@ v : d \in full \cup withExtra \cup noMissing \cup noFound, v \in withValid}

ComparatorOutcomes(names) ==
  IF explore = "generation"
  THEN {[kind |-> "raise", result |-> None], [kind |-> "nondict", result |-> None]}
         \cup {[kind |-> "dict", result |-> d] : d \in ComparatorDicts(names)}
  ELSE {[kind |-> "dict",
         result |-> ("missing_errors" :> <<>>) @@ ("found_errors" :> names) @@ ("valid" :> TRUE)],
        [kind |-> "dict",
         result |-> ("missing_errors" :> names) @@ ("found_errors" :> <<>>) @@ ("valid" :> FALSE)]}

\* what generate_improved_prompt does when called
PromptOutcomes == IF explore = "generation" THEN {"ok", "raise"} ELSE {"ok"}

\* ------------------------------------------------------------------------
\* WorkflowNodes.regenerate_code_node (src/workflow/node.py)
\* ------------------------------------------------------------------------
\* gen: what code_generator.llm.invoke does on the direct path, and what the
\*      catalog and generator do on the fallback path
\* regenerate_code_node, were it to advance current_step before the call of
\* the LLM
regenerate_code_node_advancing(s, pick, catalog, gen) ==
  IF wired.llm
  THEN IF gen.kind = "raise"
       THEN [s EXCEPT !.error = "Error regenerating code", !.current_step = "evaluate"]
       ELSE LET parsed == extract_both_code_versions(gen.response)
                requested_errors == extract_requested_errors(s)
                s0 == AfterExtract(s)
            IN [s0 EXCEPT !.code_snippet = CodeSnippet(parsed.annotated, parsed.clean,
                                             requested_errors, DefaultExpectedErrorCount),
                          !.current_step = "evaluate"]
  ELSE generate_code_node(s, pick, catalog, gen)

\* regenerate_code_node, were it to leave current_step alone after replacing
\* the snippet
regenerate_code_node_staying(s, pick, catalog, gen) ==
  IF wired.llm
  THEN IF gen.kind = "raise" THEN [s EXCEPT !.error = "Error regenerating code"]
       ELSE LET parsed == extract_both_code_versions(gen.response)
                requested_errors == extract_requested_errors(s)
                s0 == AfterExtract(s)
            IN [s0 EXCEPT !.code_snippet = CodeSnippet(parsed.annotated, parsed.clean,
                                             requested_errors, DefaultExpectedErrorCount)]
  ELSE generate_code_node(s, pick, catalog, gen)

regenerate_code_node(s, pick, catalog, gen) ==
  IF wired.llm
  THEN IF gen.kind = "raise" THEN [s EXCEPT !.error = "Error regenerating code"]
       ELSE LET parsed == extract_both_code_versions(gen.response)
                requested_errors == extract_requested_errors(s)
                s0 == AfterExtract(s)
            IN [s0 EXCEPT !.code_snippet = CodeSnippet(parsed.annotated, parsed.clean,
                                             requested_errors, DefaultExpectedErrorCount),
                          !.current_step = "evaluate"]
  ELSE generate_code_node(s, pick, catalog, gen)

\* WorkflowNodes.review_code_node
review_code_node_clearing(s) ==
  [s EXCEPT !.current_step = "review", !.error = Null]

review_code_node(s) ==
  [s EXCEPT !.current_step = "review"]

\* ------------------------------------------------------------------------
\* WorkflowNodes.analyze_review_node (src/workflow/node.py)
\* ------------------------------------------------------------------------
\* an override that writes only the keys the comparator left out
override_total_kept(raw, original_error_count) ==
  LET identified_count == get_field_value(raw, "identified_count", 0)
  IN raw
       @@ ("total_problems" :> original_error_count)
       @@ ("original_error_count" :> original_error_count)
       @@ ("identified_percentage" :> (identified_count * 100) \div original_error_count)
       @@ ("accuracy_percentage" :> (identified_count * 100) \div original_error_count)

\* the analysis with its counts replaced by the session's original count
override_total(raw, original_error_count) ==
  LET identified_count == get_field_value(raw, "identified_count", 0)
  IN ("total_problems" :> original_error_count)
       @@ ("original_error_count" :> original_error_count)
       @@ ("identified_percentage" :> (identified_count * 100) \div original_error_count)
       @@ ("accuracy_percentage" :> (identified_count * 100) \div original_error_count)
       @@ raw

\* state.current_iteration += 1
next_iteration(current_iteration) == current_iteration + 1

\* ana:   what evaluator.evaluate_review does: [kind |-> "raise"] or
\*        [kind |-> "ok", result |-> a dict or None]
\* guide: "ok" or "raise", what evaluator.generate_targeted_guidance does
analyze_review_node(s, ana, guide) ==
  IF s.review_history = <<>> THEN [s EXCEPT !.error = "no_review_submitted"]
  ELSE IF s.code_snippet = None THEN [s EXCEPT !.error = "no_code_snippet_available"]
  ELSE IF ~wired.evaluator THEN [s EXCEPT !.error = "student_evaluator_not_initialized"]
  ELSE IF ana.kind = "raise" THEN [s EXCEPT !.error = "Error analyzing review"]
  ELSE
    LET latest == Len(s.review_history)
        original_error_count == s.original_error_count
        raw == ana.result
        identified_count == get_field_value(raw, "identified_count", 0)
        overridden == override_total(raw, original_error_count)
        analysis ==
          IF original_error_count > 0
          THEN IF identified_count = original_error_count
               THEN ("review_sufficient" :> TRUE) @@ overridden
               ELSE overridden
          ELSE raw
        review_sufficient == get_field_value(analysis, "review_sufficient", FALSE)
        s1 == [s EXCEPT !.review_history[latest].analysis = analysis,
                        !.review_sufficient = review_sufficient]
        wants_guidance == ~review_sufficient /\ s.current_iteration < s.max_iterations
        s2 == IF wants_guidance
              THEN [s1 EXCEPT !.review_history[latest].targeted_guidance = "guidance"]
              ELSE s1
    IN IF original_error_count > 0 /\ raw = None
       THEN [s EXCEPT !.error = "Error analyzing review"]
       ELSE IF wants_guidance /\ guide = "raise"
       THEN [s1 EXCEPT !.error = "Error analyzing review"]
       ELSE [s2 EXCEPT !.current_iteration = next_iteration(@), !.current_step = "analyze"]

\* the call reached "latest_review.analysis = analysis"
analysis_stored(s, ana) ==
  /\ s.review_history # <<>>
  /\ s.code_snippet # None
  /\ wired.evaluator
  /\ ana.kind # "raise"
  /\ ~(s.original_error_count > 0 /\ ana.result = None)

\* the dicts the review comparator may return
AnalysisDicts ==
  LET counts == {("identified_count" :> i) @@ ("total_problems" :> n) :
                   i \in 0..MaxReported, n \in 0..MaxReported}
      withSufficient == {("review_sufficient" :> TRUE), << >>}
  IN {c @@ f : c \in counts, f \in withSufficient}

\* the dicts of a review comparator that finds 2 problems in the first review
\* it analyses and 4 in every later one, whatever total and sufficiency it
\* reports with them
ImprovingAnalysisDicts ==
  LET identified == IF stored = 0 THEN 2 ELSE 4
      counts == {("identified_count" :> identified) @@ ("total_problems" :> n) : n \in {3, 4}}
      withSufficient == {("review_sufficient" :> TRUE), << >>}
  IN {c @@ f : c \in counts, f \in withSufficient}

AnalyzerOutcomes ==
  IF explore = "review"
  THEN {[kind |-> "raise", result |-> None], [kind |-> "ok", result |-> None]}
         \cup {[kind |-> "ok", result |-> d] : d \in AnalysisDicts}
  ELSE IF explore = "improving"
  THEN {[kind |-> "raise", result |-> None]}
         \cup {[kind |-> "ok", result |-> d] : d \in ImprovingAnalysisDicts}
  ELSE {[kind |-> "raise", result |-> None],
        [kind |-> "ok", result |-> ("identified_count" :> 0) @@ ("total_problems" :> MaxReported)]}

\* what generate_targeted_guidance does when called
GuidanceOutcomes == IF explore # "generation" THEN {"ok", "raise"} ELSE {"ok"}

\* the review submissions followed
SubmissionCap == IF explore # "generation" THEN MaxSubmissions ELSE 1

\* ------------------------------------------------------------------------
\* WorkflowConditions (src/workflow/conditions.py)
\* ------------------------------------------------------------------------
\* truth value of a dict: neither None nor empty
Truthy(d) == d # None /\ DOMAIN d # {}

should_regenerate_or_review_unflagged(s) ==
  LET evaluation_result == s.evaluation_result
      has_missing_errors ==
        Truthy(evaluation_result)
          /\ Len(get_field_value(evaluation_result, "missing_errors", <<>>)) > 0
      has_extra_errors ==
        Truthy(evaluation_result)
          /\ Len(get_field_value(evaluation_result, "extra_errors", <<>>)) > 0
      needs_regeneration == has_missing_errors \/ has_extra_errors
  IN IF s.current_step = "regenerate" THEN "regenerate_code"
     ELSE IF needs_regeneration /\ s.evaluation_attempts < s.max_evaluation_attempts
     THEN "regenerate_code"
     ELSE "review_code"

should_regenerate_or_review(s) ==
  LET evaluation_result == s.evaluation_result
      has_missing_errors ==
        Truthy(evaluation_result)
          /\ Len(get_field_value(evaluation_result, "missing_errors", <<>>)) > 0
      has_extra_errors ==
        Truthy(evaluation_result)
          /\ Len(get_field_value(evaluation_result, "extra_errors", <<>>)) > 0
      needs_regeneration == has_missing_errors \/ has_extra_errors
  IN IF s.current_step = "regenerate" THEN "regenerate_code"
     ELSE IF Truthy(evaluation_result)
             /\ get_field_value(evaluation_result, "valid", FALSE) = TRUE
     THEN "review_code"
     ELSE IF needs_regeneration /\ s.evaluation_attempts < s.max_evaluation_attempts
     THEN "regenerate_code"
     ELSE "review_code"

\* a decision that looks at the iteration count only
should_continue_review_by_count(s) ==
  IF s.current_iteration > s.max_iterations
  THEN [decision |-> "generate_summary", state |-> s]
  ELSE [decision |-> "continue_review", state |-> s]

\* a decision that ends the review one iteration early (>= for >)
should_continue_review_at_limit(s) ==
  LET latest_review == IF s.review_history # <<>>
                       THEN s.review_history[Len(s.review_history)] ELSE None
      identified_count == get_field_value(latest_review.analysis, "identified_count", 0)
      total_problems == get_field_value(latest_review.analysis, "total_problems", 0)
  IN IF s.current_iteration >= s.max_iterations
     THEN [decision |-> "generate_summary", state |-> s]
     ELSE IF s.review_sufficient
     THEN [decision |-> "generate_summary", state |-> s]
     ELSE IF latest_review # None /\ Truthy(latest_review.analysis)
             /\ identified_count = total_problems /\ total_problems > 0
     THEN [decision |-> "generate_summary", state |-> [s EXCEPT !.review_sufficient = TRUE]]
     ELSE [decision |-> "continue_review", state |-> s]

\* the value returned and the session it leaves
should_continue_review(s) ==
  LET latest_review == IF s.review_history # <<>>
                       THEN s.review_history[Len(s.review_history)] ELSE None
      identified_count == get_field_value(latest_review.analysis, "identified_count", 0)
      total_problems == get_field_value(latest_review.analysis, "total_problems", 0)
  IN IF s.current_iteration > s.max_iterations
     THEN [decision |-> "generate_summary", state |-> s]
     ELSE IF s.review_sufficient
     THEN [decision |-> "generate_summary", state |-> s]
     ELSE IF latest_review # None /\ Truthy(latest_review.analysis)
             /\ identified_count = total_problems /\ total_problems > 0
     THEN [decision |-> "generate_summary", state |-> [s EXCEPT !.review_sufficient = TRUE]]
     ELSE [decision |-> "continue_review", state |-> s]

\* ------------------------------------------------------------------------
\* The session at its start
\* ------------------------------------------------------------------------
\* the collaborators a WorkflowNodes object may come with: everything wired;
\* no LLM on the generator; no student-response evaluator; a code evaluator
\* that has generate_improved_prompt
Wirings ==
  {[llm |-> TRUE, evaluator |-> TRUE, improved |-> FALSE],
   [llm |-> FALSE, evaluator |-> TRUE, improved |-> FALSE],
   [llm |-> TRUE, evaluator |-> FALSE, improved |-> FALSE],
   [llm |-> TRUE, evaluator |-> TRUE, improved |-> TRUE]}

\* what the student selected: explicit errors, or categories, or nothing
Selections ==
  {[specific |-> SelectedErrors(k), categories |-> <<>>] : k \in 1..MaxSelected}
    \cup {[specific |-> <<>>, categories |-> CategoryNames(c)] : c \in 0..MaxCategories}

Difficulties == {"medium"}

\* the graph is about to be entered with a fresh session
Entry ==
  /\ pc = "generate_code"
  /\ decision = "none"
  /\ evalRuns = 0
  /\ regenRuns = 0
  /\ firstCmp = "none"
  /\ allMissing = TRUE
  /\ stored = 0
  /\ allShort = TRUE
  /\ submissions = 0
  /\ last = [node |-> "none", host |-> FALSE, failed |-> FALSE, wrote |-> FALSE, raw |-> None,
            known |-> <<>>]
  /\ submitters = <<>>

\* every evaluation budget and every wiring of the generation phase, the
\* collaborators of the generation phase followed through all their outcomes
Init ==
  /\ explore = "generation"
  /\ \E maxEval \in 1..MaxEvalBudget, sel \in Selections, difficulty \in Difficulties :
       state = WorkflowState(maxEval, 1, sel.specific, sel.categories, difficulty)
  /\ wired \in {w \in Wirings : w.evaluator}
  /\ Entry

\* every iteration budget and every wiring of the review phase, the
\* collaborators of the review phase followed through all their outcomes
InitReview ==
  /\ explore = "review"
  /\ \E maxIter \in 1..MaxIterBudget, sel \in Selections, difficulty \in Difficulties :
       state = WorkflowState(2, maxIter, sel.specific, sel.categories, difficulty)
  /\ wired \in {w \in Wirings : w.llm /\ ~w.improved}
  /\ Entry

\* the session of the improving-review scenario: four errors selected, three
\* review iterations allowed
InitImproving ==
  /\ explore = "improving"
  /\ state = WorkflowState(2, 3, SelectedErrors(4), <<>>, "medium")
  /\ wired \in {w \in Wirings : w.llm /\ ~w.improved}
  /\ Entry

\* a handler ended in an error branch: run on the session with its error
\* cleared, it leaves an error
Raised(after) == after.error # Null
Cleared(s) == [s EXCEPT !.error = Null]

\* ------------------------------------------------------------------------
\* The graph (src/workflow/builder.py): nodes and the edges out of them
\* ------------------------------------------------------------------------
\* the known_problems list analyze_review_node hands to evaluate_review
known_problems(s) ==
  IF Truthy(s.evaluation_result) /\ "found_errors" \in DOMAIN s.evaluation_result
  THEN get_field_value(s.evaluation_result, "found_errors", <<>>)
  ELSE <<>>

\* the call error_repository.get_errors_for_llm(count = required_error_count)
\* of a generate_code_node call in category mode that went on to build a
\* snippet: the count asked for and the number of errors answered
CatalogCall(s, catalog, gen) ==
  IF Len(s.selected_specific_errors) = 0
       /\ Len(get_field_value(s.selected_error_categories, "java_errors", <<>>)) > 0
       /\ gen.kind # "raise"
  THEN [required |-> get_error_count_from_state(s, s.difficulty_level),
        answered |-> Len(catalog)]
  ELSE None

\* entry point generate_code; edge generate_code -> evaluate_code
GenerateCode ==
  /\ pc = "generate_code"
  /\ \E pick \in DomainChoices, gen \in GeneratorOutcomes,
        catalog \in IF Len(state.selected_specific_errors) > 0 THEN {<<>>}
                    ELSE CatalogAnswers(get_error_count_from_state(state, state.difficulty_level)) :
       /\ state' = generate_code_node(state, pick, catalog, gen)
       /\ last' = [node |-> "generate_code", host |-> FALSE,
                   failed |-> Raised(generate_code_node(Cleared(state), pick, catalog, gen)),
                   wrote |-> ~Raised(generate_code_node(Cleared(state), pick, catalog, gen)),
                   raw |-> CatalogCall(state, catalog, gen), known |-> <<>>]
  /\ pc' = "evaluate_code"
  /\ decision' = "none"
  /\ UNCHANGED << explore, wired, evalRuns, regenRuns, firstCmp, allMissing, stored, allShort, submissions, submitters >>

\* the comparator reported every requested error missing
ReportsAllMissing(cmp, names) ==
  /\ cmp.kind = "dict"
  /\ "missing_errors" \in DOMAIN cmp.result
  /\ cmp.result.missing_errors = names
  /\ names # <<>>

\* the comparator reported every requested error found and none missing
ReportsAllFound(cmp, names) ==
  /\ cmp.kind = "dict"
  /\ "missing_errors" \in DOMAIN cmp.result
  /\ cmp.result.missing_errors = <<>>
  /\ "found_errors" \in DOMAIN cmp.result
  /\ cmp.result.found_errors = names

\* node evaluate_code; conditional edge evaluate_code -> should_regenerate_or_review
EvaluateCode ==
  /\ pc = "evaluate_code"
  /\ evalRuns < MaxEvalRuns
  /\ LET names == FormatErrors(extract_requested_errors(state))
         called == state.code_snippet # None
     IN \E cmp \in IF called THEN ComparatorOutcomes(names) ELSE {[kind |-> "raise", result |-> None]},
           prompt \in PromptOutcomes :
          /\ state' = evaluate_code_node(state, cmp, prompt)
          /\ last' = [node |-> "evaluate_code", host |-> FALSE,
                      failed |-> Raised(evaluate_code_node(Cleared(state), cmp, prompt)),
                      wrote |-> evaluation_stored(state, cmp),
                      raw |-> IF called THEN cmp.result ELSE None, known |-> <<>>]
          /\ firstCmp' = IF firstCmp = "none" /\ called
                         THEN IF ReportsAllFound(cmp, names) THEN "all_found" ELSE "other"
                         ELSE firstCmp
          /\ allMissing' = (allMissing /\ called /\ ReportsAllMissing(cmp, names))
  /\ evalRuns' = evalRuns + 1
  /\ pc' = "route_evaluate"
  /\ decision' = "none"
  /\ UNCHANGED << explore, wired, regenRuns, stored, allShort, submissions, submitters >>

\* the conditional edge out of evaluate_code
RouteEvaluate ==
  /\ pc = "route_evaluate"
  /\ decision' = should_regenerate_or_review(state)
  /\ pc' = IF decision' = "regenerate_code" THEN "regenerate_code" ELSE "review_code"
  /\ UNCHANGED << state, explore, wired, evalRuns, regenRuns, firstCmp, allMissing, stored, allShort,
                  submissions, last, submitters >>

\* node regenerate_code; edge regenerate_code -> evaluate_code
RegenerateCode ==
  /\ pc = "regenerate_code"
  /\ \E pick \in DomainChoices, gen \in GeneratorOutcomes,
        catalog \in IF wired.llm \/ Len(state.selected_specific_errors) > 0 THEN {<<>>}
                    ELSE CatalogAnswers(get_error_count_from_state(state, state.difficulty_level)) :
       /\ state' = regenerate_code_node(state, pick, catalog, gen)
       /\ last' = [node |-> "regenerate_code", host |-> FALSE,
                   failed |-> Raised(regenerate_code_node(Cleared(state), pick, catalog, gen)),
                   wrote |-> ~Raised(regenerate_code_node(Cleared(state), pick, catalog, gen)),
                   raw |-> IF wired.llm THEN None ELSE CatalogCall(state, catalog, gen),
                   known |-> <<>>]
  /\ regenRuns' = regenRuns + 1
  /\ pc' = "evaluate_code"
  /\ decision' = "none"
  /\ UNCHANGED << explore, wired, evalRuns, firstCmp, allMissing, stored, allShort, submissions, submitters >>

\* node review_code; edge review_code -> analyze_review
ReviewCode ==
  /\ pc = "review_code"
  /\ state' = review_code_node(state)
  /\ last' = [node |-> "review_code", host |-> FALSE, failed |-> FALSE, wrote |-> FALSE,
               raw |-> None, known |-> <<>>]
  /\ pc' = "analyze_review"
  /\ decision' = "none"
  \* the generation cycle is over: its observers start afresh
  /\ evalRuns' = 0
  /\ regenRuns' = 0
  /\ firstCmp' = "none"
  /\ allMissing' = TRUE
  /\ UNCHANGED << explore, wired, stored, allShort, submissions, submitters >>

\* ------------------------------------------------------------------------
\* Review submission
\* ------------------------------------------------------------------------
\* workflow.submit_review up to its call of analyze_review_node: the review
\* is appended to the history as a new ReviewIteration
append_review(s, student_review) ==
  [s EXCEPT !.review_history =
     Append(@, [iteration_number |-> s.current_iteration,
                student_review |-> student_review,
                analysis |-> None,
                targeted_guidance |-> Null])]

\* workflow.submit_review(state, student_review)
submit_review(s, student_review, ana, guide) ==
  analyze_review_node(append_review(s, student_review), ana, guide)

\* the latest analysis reports every problem identified
AllErrorsFound(s) ==
  /\ s.review_history # <<>>
  /\ Truthy(s.review_history[Len(s.review_history)].analysis)
  /\ LET analysis == s.review_history[Len(s.review_history)].analysis
         identified_count == get_field_value(analysis, "identified_count", 0)
         total_problems == get_field_value(analysis, "total_problems", 0)
     IN identified_count = total_problems /\ total_problems > 0

\* process_student_review (src/ui/review_tab.py), for a review text that is
\* not blank and a session that has a snippet
process_student_review(s, student_review, ana, guide) ==
  LET updated_state == submit_review(s, student_review, ana, guide)
  IN IF updated_state.error # Null THEN updated_state
     ELSE IF AllErrorsFound(updated_state)
     THEN [updated_state EXCEPT !.review_sufficient = TRUE]
     ELSE updated_state

\* the analysis an analyze call left on the latest review falls short:
\* fewer problems identified than there are, and not sufficient
FallsShort(s) ==
  LET analysis == s.review_history[Len(s.review_history)].analysis
  IN /\ get_field_value(analysis, "identified_count", 0)
          < get_field_value(analysis, "total_problems", 0)
     /\ ~get_field_value(analysis, "review_sufficient", FALSE)
     /\ ~s.review_sufficient

ReviewTexts == {"the loop is off by one"}

\* node analyze_review, run on the history as it is; conditional edge
\* analyze_review -> should_continue_review
AnalyzeReview ==
  /\ pc = "analyze_review"
  /\ stored < MaxAnalyzeRuns
  /\ \E ana \in AnalyzerOutcomes, guide \in GuidanceOutcomes :
       LET failed == Raised(analyze_review_node(Cleared(state), ana, guide))
       IN /\ state' = analyze_review_node(state, ana, guide)
          /\ last' = [node |-> "analyze_review", host |-> FALSE, failed |-> failed,
                      wrote |-> analysis_stored(state, ana), raw |-> ana.result,
                      known |-> known_problems(state)]
          /\ stored' = IF analysis_stored(state, ana) THEN stored + 1 ELSE stored
          /\ allShort' = (allShort /\ (analysis_stored(state, ana) => FallsShort(state')))
  /\ pc' = "route_review"
  /\ decision' = "none"
  /\ UNCHANGED << explore, wired, evalRuns, regenRuns, firstCmp, allMissing, submissions, submitters >>

\* the student submits a review through process_student_review, while the
\* graph waits for one or after it has ended
ProcessStudentReview ==
  /\ pc \in {"analyze_review", "generate_summary"}
  /\ submissions < SubmissionCap
  /\ stored < MaxAnalyzeRuns
  /\ state.code_snippet # None
  /\ \E student_review \in ReviewTexts, ana \in AnalyzerOutcomes, guide \in GuidanceOutcomes :
       LET failed == Raised(submit_review(Cleared(state), student_review, ana, guide))
       IN /\ state' = process_student_review(state, student_review, ana, guide)
          /\ last' = [node |-> "analyze_review", host |-> TRUE, failed |-> failed,
                      wrote |-> analysis_stored(append_review(state, student_review), ana),
                      raw |-> ana.result,
                      known |-> known_problems(append_review(state, student_review))]
          /\ stored' = IF analysis_stored(append_review(state, student_review), ana)
                       THEN stored + 1 ELSE stored
          /\ allShort' = (allShort /\ (analysis_stored(append_review(state, student_review), ana)
                                         => FallsShort(state')))
  /\ submissions' = submissions + 1
  /\ pc' = "route_review"
  /\ decision' = "none"
  /\ UNCHANGED << explore, wired, evalRuns, regenRuns, firstCmp, allMissing, submitters >>

\* the conditional edge out of analyze_review
RouteReview ==
  /\ pc = "route_review"
  /\ decision' = should_continue_review(state).decision
  /\ state' = should_continue_review(state).state
  /\ pc' = IF decision' = "continue_review" THEN "review_code" ELSE "generate_summary"
  /\ UNCHANGED << explore, wired, evalRuns, regenRuns, firstCmp, allMissing, stored, allShort,
                  submissions, last, submitters >>

Next ==
  \/ GenerateCode
  \/ EvaluateCode
  \/ RouteEvaluate
  \/ RegenerateCode
  \/ ReviewCode
  \/ AnalyzeReview
  \/ ProcessStudentReview
  \/ RouteReview

Spec == Init /\ [][Next]_vars

SpecReview == InitReview /\ [][Next]_vars

SpecImproving == InitImproving /\ [][Next]_vars

\* ------------------------------------------------------------------------
\* The response parser on its own (src/utils/code_utils.py)
\* ------------------------------------------------------------------------
\* the tags a fence may open with: the two the prompt asks for, the generic
\* one, another language, none
ParserTags == {"java-annotated", "java-clean", "java", "python", ""}
ParserBodies == {<<>>, <<"stmt">>, <<"stmt", "err">>}
ParserBlocks == {Block(tag, body) : tag \in ParserTags, body \in ParserBodies}

\* the texts of up to MaxBlocks fenced blocks; a text without a fence, the
\* empty one included, is the empty sequence
BlockTexts == UNION {[1..n -> ParserBlocks] : n \in 0..MaxBlocks}

\* what the caller may hand to the parser: None, a str, a message object with
\* a content attribute, a dict with a "content" key; the content of the last
\* two is a str or something else (None, a list of parts)
ParserResponses ==
  {[kind |-> "none", istext |-> FALSE, blocks |-> <<>>]}
    \cup {[kind |-> k, istext |-> TRUE, blocks |-> t] :
            k \in {"text", "message", "dict"}, t \in BlockTexts}
    \cup {[kind |-> k, istext |-> FALSE, blocks |-> <<>>] : k \in {"message", "dict"}}

\* extract_both_code_versions from its argument on: the falsy check, the
\* unwrapping of the content, and the extraction from the text; the regular
\* expressions raise on a content that is not a str
extract_response(response) ==
  IF response.kind = "none" \/ (response.kind = "text" /\ response.blocks = <<>>)
  THEN [raised |-> FALSE, annotated |-> <<>>, clean |-> <<>>]
  ELSE IF ~response.istext
  THEN [raised |-> TRUE, annotated |-> <<>>, clean |-> <<>>]
  ELSE [raised |-> FALSE] @@ extract_both_code_versions(response.blocks)

\* a response is about to be parsed
InitParser ==
  /\ explore = "parser"
  /\ \E response \in ParserResponses :
       state = [response |-> response, calls |-> 0, result |-> None, again |-> None]
  /\ wired \in {w \in Wirings : w.llm /\ w.evaluator /\ ~w.improved}
  /\ pc = "parse"
  /\ decision = "none"
  /\ evalRuns = 0
  /\ regenRuns = 0
  /\ firstCmp = "none"
  /\ allMissing = TRUE
  /\ stored = 0
  /\ allShort = TRUE
  /\ submissions = 0
  /\ last = [node |-> "none", host |-> FALSE, failed |-> FALSE, wrote |-> FALSE, raw |-> None,
             known |-> <<>>]
  /\ submitters = <<>>

\* a call of extract_both_code_versions
ParseResponse ==
  /\ pc = "parse"
  /\ state' = [state EXCEPT !.calls = 1, !.result = extract_response(state.response)]
  /\ pc' = "parse_again"
  /\ UNCHANGED << explore, wired, decision, evalRuns, regenRuns, firstCmp, allMissing, stored,
                  allShort, submissions, last, submitters >>

\* a second call on the same response
ParseAgain ==
  /\ pc = "parse_again"
  /\ state' = [state EXCEPT !.calls = 2, !.again = extract_response(state.response)]
  /\ pc' = "parsed"
  /\ UNCHANGED << explore, wired, decision, evalRuns, regenRuns, firstCmp, allMissing, stored,
                  allShort, submissions, last, submitters >>

NextParser ==
  \/ ParseResponse
  \/ ParseAgain

SpecParser == InitParser /\ [][NextParser]_vars

\* ------------------------------------------------------------------------
\* Properties
\* ------------------------------------------------------------------------
LatestReview == state.review_history[Len(state.review_history)]
MissingErrors == get_field_value(state.evaluation_result, "missing_errors", <<>>)
AfterEvaluateDecision == decision \in {"regenerate_code", "review_code"}
AfterAnalyzeDecision == decision \in {"continue_review", "generate_summary"}

\* C1: in every reachable state evaluation_attempts is at most
\* max_evaluation_attempts, whatever the generator and the comparator do.
C1_AttemptsWithinBudget ==
  state.evaluation_attempts <= state.max_evaluation_attempts

\* C2: from generate, the graph reaches review after at most
\* max_evaluation_attempts executions of evaluate_code_node (evalRuns counts
\* them until review_code is reached).
C2_EvaluationsWithinBudget ==
  evalRuns <= state.max_evaluation_attempts

\* C3: once review_sufficient is true it stays true in every later state of
\* the session.
C3_SufficientLatched ==
  [][state.review_sufficient => state'.review_sufficient]_vars

ClaimedPostEvaluate(s) ==
  IF s.evaluation_result # None /\ get_field_value(s.evaluation_result, "valid", FALSE)
  THEN "review_code"
  ELSE IF (\/ Len(get_field_value(s.evaluation_result, "missing_errors", <<>>)) > 0
           \/ Len(get_field_value(s.evaluation_result, "extra_errors", <<>>)) > 0)
          /\ s.evaluation_attempts < s.max_evaluation_attempts
  THEN "regenerate_code"
  ELSE "review_code"

\* C5: the post-evaluate decision is review_code when valid;
\* otherwise regenerate_code when errors are missing or extra and attempts
\* are left; otherwise review_code.
C5_PostEvaluateDecision ==
  AfterEvaluateDecision => decision = ClaimedPostEvaluate(state)

\* the post-analyze decision and session as the claim words them
ClaimedPostAnalyze(s) ==
  IF s.current_iteration > s.max_iterations THEN [decision |-> "generate_summary", state |-> s]
  ELSE IF s.review_sufficient THEN [decision |-> "generate_summary", state |-> s]
  ELSE IF /\ s.review_history # <<>>
          /\ s.review_history[Len(s.review_history)].analysis # None
          /\ get_field_value(s.review_history[Len(s.review_history)].analysis,
                             "identified_count", 0)
               = get_field_value(s.review_history[Len(s.review_history)].analysis,
                                 "total_problems", 0)
          /\ get_field_value(s.review_history[Len(s.review_history)].analysis,
                             "total_problems", 0) > 0
  THEN [decision |-> "generate_summary", state |-> [s EXCEPT !.review_sufficient = TRUE]]
  ELSE [decision |-> "continue_review", state |-> s]

\* C6: should_continue_review returns generate_summary past max_iterations,
\* else when review_sufficient, else (setting review_sufficient) when the
\* latest analysis identified all of its total_problems > 0; otherwise
\* continue_review with the session unchanged.
C6_PostAnalyzeDecision ==
  [][pc = "route_review"
       => /\ decision' = ClaimedPostAnalyze(state).decision
          /\ state' = ClaimedPostAnalyze(state).state]_vars

\* the decision itself set review_sufficient: iterations were left and the
\* graph's analyze call had left review_sufficient false on an analysis that
\* identified every problem
C6_Witness ==
  /\ decision = "generate_summary"
  /\ last.node = "analyze_review" /\ ~last.host /\ ~last.failed
  /\ state.current_iteration <= state.max_iterations
  /\ state.review_sufficient
  /\ ~get_field_value(LatestReview.analysis, "review_sufficient", FALSE)

\* C7: after every evaluate call that stores an evaluation_result, valid is
\* true exactly when missing_errors is empty.
C7_ValidIffNothingMissing ==
  (last.node = "evaluate_code" /\ last.wrote)
    => (state.evaluation_result.valid <=> MissingErrors = <<>>)

\* C8: with K >= 1 explicitly selected errors and a comparator that reports
\* all of them found on the first evaluation, the result is valid, the
\* session goes to review and regenerate_code_node is not executed.
C8_AllFoundGoesToReview ==
  (Len(state.selected_specific_errors) >= 1 /\ firstCmp = "all_found")
    => /\ regenRuns = 0
       /\ state.evaluation_result.valid = TRUE
       /\ state.current_step = "review"
       /\ pc \in {"route_evaluate", "review_code"}
       /\ AfterEvaluateDecision => decision = "review_code"

\* the largest explicit selection, all found, routed to review
C8_Witness ==
  /\ Len(state.selected_specific_errors) = MaxSelected
  /\ firstCmp = "all_found"
  /\ decision = "review_code"

\* C9: with a budget of 3, one selected error and a comparator that reports
\* it missing on every call, the decision is regenerate while fewer than 3
\* attempts are counted and review once 3 are counted, and review is then
\* entered with valid = false and the same missing list.
C9_OneErrorAlwaysMissing ==
  (/\ state.max_evaluation_attempts = 3
   /\ Len(state.selected_specific_errors) = 1
   /\ allMissing /\ evalRuns >= 1
   /\ AfterEvaluateDecision)
    => /\ decision = IF state.evaluation_attempts < 3 THEN "regenerate_code" ELSE "review_code"
       /\ state.evaluation_result # None
            => /\ state.evaluation_result.valid = FALSE
               /\ MissingErrors = <<FormatError(SelectedError(1))>>

\* C10: while every analysis stored falls short (fewer problems identified
\* than there are, none sufficient), the decision after the n-th analyze call
\* that stored one is continue_review for n < max_iterations and
\* generate_summary for n = max_iterations.
C10_SummaryAtMaxIterations ==
  (AfterAnalyzeDecision /\ last.node = "analyze_review" /\ last.wrote /\ allShort)
    => decision = IF stored < state.max_iterations THEN "continue_review"
                  ELSE "generate_summary"

\* the analyze call that ran last stored its analysis, and the post-analyze
\* decision on it has been taken
DecidedOnStoredAnalysis ==
  AfterAnalyzeDecision /\ last.node = "analyze_review" /\ last.wrote

\* C11 as stated: with max_iterations = 3 and original_error_count = 4, after
\* a first analysis identifying 2 of 4 the decision is continue_review and
\* review_sufficient is false; after a second one identifying 4 of 4
\* review_sufficient is true and the decision is generate_summary.
C11_TwoThenFour ==
  (DecidedOnStoredAnalysis /\ state.max_iterations = 3 /\ state.original_error_count = 4)
    => /\ (stored = 1 /\ last.raw.identified_count = 2)
            => (decision = "continue_review" /\ ~state.review_sufficient)
       /\ (stored = 2 /\ last.raw.identified_count = 4)
            => (decision = "generate_summary" /\ state.review_sufficient)

\* C11 amended: the same, for a first analysis in which the review comparator
\* does not itself report review_sufficient.
C11_TwoUnflaggedThenFour ==
  (DecidedOnStoredAnalysis /\ state.max_iterations = 3 /\ state.original_error_count = 4)
    => /\ (stored = 1 /\ last.raw.identified_count = 2
             /\ ~get_field_value(last.raw, "review_sufficient", FALSE))
            => (decision = "continue_review" /\ ~state.review_sufficient)
       /\ (stored = 2 /\ last.raw.identified_count = 4)
            => (decision = "generate_summary" /\ state.review_sufficient)

\* two reviews were submitted, the first analysed as 2 of 4 and the second as
\* 4 of 4, and the review ended sufficient with iterations left
C11_Witness ==
  /\ DecidedOnStoredAnalysis /\ stored = 2
  /\ Len(state.review_history) = 2
  /\ state.review_history[1].analysis.identified_count = 2
  /\ ~get_field_value(state.review_history[1].analysis, "review_sufficient", FALSE)
  /\ state.review_history[2].analysis.identified_count = 4
  /\ state.review_history[2].analysis.total_problems = 4
  /\ get_field_value(last.raw, "total_problems", 0) = 3
  /\ state.review_sufficient /\ decision = "generate_summary"
  /\ state.current_iteration <= state.max_iterations

\* C12: the review loop always ends: once max_iterations analyze calls have
\* run, the post-analyze decision is generate_summary, and a decision of
\* generate_summary has one of three causes: current_iteration beyond
\* max_iterations, review_sufficient, or every problem identified.
C12_ReviewLoopEnds ==
  (AfterAnalyzeDecision /\ last.node = "analyze_review")
    => /\ stored >= state.max_iterations => decision = "generate_summary"
       /\ decision = "generate_summary"
            => \/ state.current_iteration > state.max_iterations
               \/ state.review_sufficient
               \/ AllErrorsFound(state)

\* C13: every analyze call that stores an analysis increases
\* current_iteration by exactly 1, and no step of a handler or of a decision
\* function decreases it or increases it by more than 1.
C13_IterationStepsByOne ==
  [][/\ (pc \in {"analyze_review", "generate_summary"} /\ last'.wrote /\ last'.raw # None)
          => state'.current_iteration = state.current_iteration + 1
     /\ state'.current_iteration \in {state.current_iteration, state.current_iteration + 1}]_vars

\* C14: every call of evaluate_code_node increases evaluation_attempts by
\* exactly 1, also when the snippet is missing or the comparator raises.
C14_EveryEvaluationCounted ==
  [][pc = "evaluate_code" => state'.evaluation_attempts = state.evaluation_attempts + 1]_vars

\* C15: once the generate step has produced a snippet and written
\* original_error_count, every later step of the cycle (evaluate, regenerate
\* with or without a generator wired, review, analyze, the decisions) leaves
\* original_error_count as it is.
C15_OriginalCountKept ==
  [][(pc # "generate_code" /\ state.code_snippet # None)
        => state'.original_error_count = state.original_error_count]_vars

\* C16: once a node handler has set error, the graph takes no further
\* transition and runs no further handler in that execution; the only step
\* possible is a new call from the host (a review submission).
C16_ErrorStopsWorkflow ==
  [][state.error # Null => (last'.host /\ pc' = "route_review" /\ pc # "route_review")]_vars

\* C17: whenever generate_code_node, evaluate_code_node, regenerate_code_node
\* or analyze_review_node ends in one of its error branches, it returns the
\* session with error set and with current_step as it was before the call.
C17_FailureKeepsStep ==
  [][(pc \in {"generate_code", "evaluate_code", "regenerate_code", "analyze_review",
              "generate_summary"}
       /\ last'.failed)
        => /\ state'.current_step = state.current_step
           /\ state'.error # Null
           /\ pc' \in {"evaluate_code", "route_evaluate", "route_review"}]_vars

\* the LLM raised in regenerate_code_node: the handler returned with error set
\* and current_step still "regenerate"
C17_Witness ==
  /\ last.node = "regenerate_code" /\ last.failed
  /\ wired.llm
  /\ pc = "evaluate_code"
  /\ state.current_step = "regenerate"
  /\ state.error = "Error regenerating code"

\* C18: whenever the code comparator returned a result of malformed shape (not
\* a mapping, or a mapping without missing_errors), evaluate_code_node has
\* stored an evaluation_result with found_errors empty, missing_errors naming
\* every requested error and valid = false, and has not set error.
C18_MalformedCoerced ==
  (/\ pc = "route_evaluate" /\ last.node = "evaluate_code" /\ last.wrote
   /\ (last.raw = None \/ "missing_errors" \notin DOMAIN last.raw))
    => /\ state.evaluation_result # None
       /\ get_field_value(state.evaluation_result, "found_errors", <<"absent">>) = <<>>
       /\ MissingErrors = FormatErrors(extract_requested_errors(state))
       /\ get_field_value(state.evaluation_result, "valid", TRUE) = FALSE
       /\ ~last.failed

\* the call of generate_code_node that ran last, from the graph's entry or as
\* the fallback of regenerate_code_node, ended without an error
GenerateSucceeded ==
  /\ pc = "evaluate_code"
  /\ ~last.failed
  /\ \/ last.node = "generate_code"
     \/ last.node = "regenerate_code" /\ ~wired.llm

\* C19: after every successful generate_code_node call the snippet's
\* expected_error_count, the session's original_error_count and the number
\* of errors in the snippet's raw_errors are the same, in both modes.
C19_CountsAgree ==
  GenerateSucceeded
    => /\ state.code_snippet # None
       /\ state.code_snippet.expected_error_count = state.original_error_count
       /\ state.original_error_count = Len(state.code_snippet.raw_errors.java_errors)

\* category mode with one category, for which two errors are asked of the
\* catalog: it answered with one
C19_Witness ==
  /\ GenerateSucceeded
  /\ last.node = "generate_code"
  /\ state.selected_specific_errors = <<>>
  /\ Len(state.selected_error_categories.java_errors) = 1
  /\ state.original_error_count = 1
  /\ state.code_snippet.expected_error_count = 1
  /\ Len(state.code_snippet.raw_errors.java_errors) = 1

\* C20: in category mode the count generate_code_node asks of the catalog is
\* the difficulty's (2 easy, 4 medium, 6 hard, 4 otherwise), and the snippet
\* carries the catalog's answer cut to that count, never padded; in explicit
\* mode the snippet carries exactly the selected errors.
C20_CountFromDifficulty ==
  GenerateSucceeded
    => IF Len(state.selected_specific_errors) > 0
       THEN Len(state.code_snippet.raw_errors.java_errors) = Len(state.selected_specific_errors)
       ELSE /\ last.raw.required = difficulty_map(state.difficulty_level)
            /\ Len(state.code_snippet.raw_errors.java_errors)
                 = IF last.raw.answered > last.raw.required THEN last.raw.required
                   ELSE last.raw.answered

\* C21: every regenerate_code_node call that replaces the snippet leaves
\* original_error_count as it was and gives the new snippet the
\* expected_error_count of the snippet it replaces.
C21_RegenerateKeepsCounts ==
  [][(pc = "regenerate_code" /\ last'.wrote /\ state.code_snippet # None)
        => /\ state'.original_error_count = state.original_error_count
           /\ state'.code_snippet.expected_error_count
                = state.code_snippet.expected_error_count]_vars


\* C22: after every regenerate_code_node call current_step is "evaluate" and
\* the next node the graph runs is evaluate_code, on the direct path and on
\* the fallback path.
C22_RegenerateBackToEvaluate ==
  (last.node = "regenerate_code" /\ pc = "evaluate_code")
    => state.current_step = "evaluate"


\* C22 amended: every regenerate_code_node call is followed in the graph by
\* evaluate_code, and every call that ends without an error leaves
\* current_step = "evaluate", on the direct path and on the fallback path.
C22_SuccessfulRegenerateBackToEvaluate ==
  [][pc = "regenerate_code"
       => /\ pc' = "evaluate_code"
          /\ ~last'.failed => state'.current_step = "evaluate"]_vars

\* the LLM answered a regeneration prompt: the snippet is replaced, the step
\* is "evaluate" and evaluate_code is next
C22_Witness ==
  /\ last.node = "regenerate_code" /\ ~last.failed /\ last.wrote
  /\ wired.llm
  /\ regenRuns >= 1
  /\ pc = "evaluate_code"
  /\ state.current_step = "evaluate"
  /\ state.error = Null


\* C23: once domain has a value, no step of the workflow (generate, evaluate,
\* regenerate with or without a generator, review, analyze, the decisions)
\* changes it, and every generate call leaves the session with a domain.
C23_DomainKept ==
  [][/\ state.domain # Null => state'.domain = state.domain
     /\ pc = "generate_code" => state'.domain # Null]_vars

\* generate_code_node ran a second time on the session, as the fallback of
\* regenerate_code_node, and the session has its domain
C23_Witness ==
  /\ last.node = "regenerate_code" /\ ~wired.llm /\ ~last.failed
  /\ regenRuns >= 1
  /\ state.domain \in Domains


\* the call evaluator.evaluate_review was reached by the analyze call that ran
\* last
ComparatorAsked ==
  /\ last.node = "analyze_review"
  /\ state.review_history # <<>>
  /\ state.code_snippet # None
  /\ wired.evaluator

\* the known-problems list by the precedence claimed: found_errors of the
\* evaluation result, else the selected errors formatted, else the snippet's
\* raw errors formatted
ClaimedKnownProblems(s) ==
  IF s.evaluation_result # None /\ "found_errors" \in DOMAIN s.evaluation_result
  THEN s.evaluation_result.found_errors
  ELSE IF Len(s.selected_specific_errors) > 0
  THEN FormatErrors(s.selected_specific_errors)
  ELSE FormatErrors(s.code_snippet.raw_errors.java_errors)

\* C24: the known-problems list analyze_review_node passes to the review
\* comparator is evaluation_result.found_errors when the result has it,
\* otherwise the selected errors formatted as TYPE - NAME, otherwise the
\* snippet's raw error records formatted the same way.
C24_KnownProblemsPrecedence ==
  ComparatorAsked => last.known = ClaimedKnownProblems(state)


\* C25: whenever an analyze call asks for targeted guidance (its analysis is
\* not sufficient and current_iteration was below max_iterations), the review
\* is not sufficient afterwards and should_continue_review on the resulting
\* state answers continue_review.
C25_GuidanceOnlyWhenContinuing ==
  [][(/\ pc \in {"analyze_review", "generate_summary"}
      /\ last'.wrote
      /\ ~get_field_value(LatestReview'.analysis, "review_sufficient", FALSE)
      /\ state.current_iteration < state.max_iterations)
        => /\ ~state'.review_sufficient
           /\ should_continue_review(state').decision = "continue_review"]_vars


InputErrors ==
  {"no_categories", "no_code_snippet_evaluation", "no_review_submitted",
   "no_code_snippet_available"}

\* C27: input errors are rejected before any external capability is called
\* (generate without a selection, evaluate and analyze without a snippet,
\* analyze without a submitted review): an error is recorded, current_step is
\* kept and nothing of the generator or of a comparator is stored; and a
\* valid review submitted after such an error completes, that is, its analyze
\* call having succeeded, it does not come back to the caller as failed.
C27_InputErrorsRecoverable ==
  [][/\ (/\ pc = "generate_code"
         /\ Len(state.selected_specific_errors) = 0
         /\ Len(get_field_value(state.selected_error_categories, "java_errors", <<>>)) = 0)
           => /\ last'.failed /\ state'.error \in InputErrors
              /\ state'.current_step = state.current_step
              /\ state'.code_snippet = state.code_snippet
     /\ (pc = "evaluate_code" /\ state.code_snippet = None)
           => /\ last'.failed /\ state'.error \in InputErrors
              /\ state'.current_step = state.current_step
              /\ state'.evaluation_result = state.evaluation_result
     /\ (/\ pc = "analyze_review" /\ ~last'.host
         /\ (state.review_history = <<>> \/ state.code_snippet = None))
           => /\ last'.failed /\ state'.error \in InputErrors
              /\ state'.current_step = state.current_step
              /\ state'.review_history = state.review_history
     /\ (/\ pc \in {"analyze_review", "generate_summary"} /\ last'.host
         /\ state.error \in InputErrors
         /\ ~last'.failed)
           => /\ state'.current_step = "analyze"
              /\ state'.error = Null]_vars


\* C28: a snippet and the error records selected for it are never modified in
\* place: evaluate, review, analyze and the decisions leave every field of
\* the current snippet as it is, and no step changes the selected errors; the
\* snippet changes only in a generate or regenerate step.
C28_SnippetNeverMutated ==
  [][/\ pc \notin {"generate_code", "regenerate_code"}
          => state'.code_snippet = state.code_snippet
     /\ state'.selected_specific_errors = state.selected_specific_errors]_vars


\* a response was parsed, and it was a text
ParsedText ==
  /\ explore = "parser" /\ state.calls >= 1
  /\ state.response.istext /\ ~state.result.raised

RECURSIVE Tagged(_, _)
\* the blocks of a text that carry exactly the tag
Tagged(blocks, tag) ==
  IF blocks = <<>> THEN <<>>
  ELSE IF Head(blocks).tag = tag THEN <<Head(blocks)>> \o Tagged(Tail(blocks), tag)
       ELSE Tagged(Tail(blocks), tag)

\* C29: the annotated code is the first block tagged java-annotated if there
\* is one; otherwise the first block tagged java; otherwise the largest
\* fenced block of any kind; otherwise empty; and a block tagged java-clean
\* is not returned as the annotated code while both are absent.
C29_AnnotatedByPrecedence ==
  ParsedText =>
    LET blocks == state.response.blocks
        annotated == Tagged(blocks, "java-annotated")
        generic == Tagged(blocks, "java")
        result == state.result.annotated
    IN IF annotated # <<>> THEN result = annotated[1].body
       ELSE IF generic # <<>> THEN result = generic[1].body
       ELSE IF blocks # <<>>
       THEN /\ result = Largest(FindAll(blocks, ""))
            /\ \A i \in 1..Len(blocks) :
                 blocks[i].tag = "java-clean" => result # <<"java-clean">> \o blocks[i].body
       ELSE result = <<>>


\* C30: extract_both_code_versions is total and deterministic: for every
\* response (None, empty, text, message object) it returns a pair of strings
\* without raising, empty for a variant that cannot be extracted, and a second
\* call on the same response returns the same pair.
C30_ParserTotalAndDeterministic ==
  (explore = "parser" /\ state.calls >= 1)
    => /\ ~state.result.raised
       /\ state.response.blocks = <<>>
            => (state.result.annotated = <<>> /\ state.result.clean = <<>>)
       /\ state.calls = 2 => state.again = state.result


\* ------------------------------------------------------------------------
\* Two submit callbacks in flight on one session
\* ------------------------------------------------------------------------
Submitters == {"first", "second"}

SubmittedText(p) == IF p = "first" THEN "the loop is off by one" ELSE "the sum can overflow"

\* what the student response evaluator may answer for a review of a snippet with
\* MaxReported requested errors; in this specification it never raises
DoubleSubmitAnalyses ==
  {[kind |-> "ok",
    result |-> ("identified_count" :> i) @@ ("total_problems" :> MaxReported)] :
     i \in 0..MaxReported}

NotAnswered == [kind |-> "none", result |-> None]

\* a session whose snippet was generated and accepted and that waits for a review
ReviewReady(maxIter) ==
  LET created == WorkflowState(2, maxIter, SelectedErrors(MaxReported), <<>>, "medium")
      generated == generate_code_node(created, "banking", <<>>,
                                      [kind |-> "ok", response |-> GoodResponse])
      names == FormatErrors(extract_requested_errors(generated))
      evaluated == evaluate_code_node(generated,
                     [kind |-> "dict",
                      result |-> ("missing_errors" :> <<>>) @@ ("found_errors" :> names)
                                   @@ ("valid" :> TRUE)], "ok")
  IN review_code_node(evaluated)

\* analyze_review_node up to its call of evaluate_review: the checks passed and
\* latest_review is bound to the entry that is last at this moment
evaluator_called(s) ==
  /\ s.review_history # <<>>
  /\ s.code_snippet # None
  /\ wired.evaluator

\* analyze_review_node from the return of evaluate_review on: it writes to the
\* entry it bound as latest_review and to the session as it is by now
resume_analysis(s, latest, ana, guide) ==
  LET bound == [s EXCEPT !.review_history = SubSeq(@, 1, latest)]
      done == analyze_review_node(bound, ana, guide)
  IN [done EXCEPT !.review_history =
        @ \o SubSeq(s.review_history, latest + 1, Len(s.review_history))]

InitDoubleSubmit ==
  /\ explore = "double_submit"
  /\ wired = [llm |-> TRUE, evaluator |-> TRUE, improved |-> FALSE]
  /\ \E maxIter \in 1..(MaxIterBudget + 1) : state = ReviewReady(maxIter)
  /\ pc = "analyze_review"
  /\ decision = "none"
  /\ evalRuns = 0
  /\ regenRuns = 0
  /\ firstCmp = "none"
  /\ allMissing = TRUE
  /\ stored = 0
  /\ allShort = TRUE
  /\ submissions = 0
  /\ last = [node |-> "review_code", host |-> FALSE, failed |-> FALSE, wrote |-> FALSE,
             raw |-> None, known |-> <<>>]
  /\ submitters = [p \in Submitters |-> [at |-> "idle", latest |-> 0, ana |-> NotAnswered]]

\* the callback appends its review and analyze_review_node runs up to the call of
\* the evaluator, which takes seconds and lets the other callback run
BeginSubmit(p) ==
  /\ submitters[p].at = "idle"
  /\ LET appended == append_review(state, SubmittedText(p))
     IN IF evaluator_called(appended)
        THEN /\ state' = appended
             /\ submitters' = [submitters EXCEPT ![p].at = "evaluating",
                                                 ![p].latest = Len(appended.review_history)]
        ELSE /\ state' = analyze_review_node(appended, NotAnswered, "ok")
             /\ submitters' = [submitters EXCEPT ![p].at = "done"]
  /\ submissions' = submissions + 1
  /\ UNCHANGED << explore, wired, pc, decision, evalRuns, regenRuns, firstCmp, allMissing,
                  stored, allShort, last >>

\* the evaluator answers and the callback runs to its end
FinishSubmit(p) ==
  /\ submitters[p].at = "evaluating"
  /\ \E ana \in DoubleSubmitAnalyses :
       LET updated_state == resume_analysis(state, submitters[p].latest, ana, "ok")
       IN /\ state' = IF updated_state.error # Null THEN updated_state
                      ELSE IF AllErrorsFound(updated_state)
                      THEN [updated_state EXCEPT !.review_sufficient = TRUE]
                      ELSE updated_state
          /\ submitters' = [submitters EXCEPT ![p].at = "done", ![p].ana = ana]
  /\ stored' = stored + 1
  /\ UNCHANGED << explore, wired, pc, decision, evalRuns, regenRuns, firstCmp, allMissing,
                  allShort, submissions, last >>

NextDoubleSubmit == \E p \in Submitters : BeginSubmit(p) \/ FinishSubmit(p)

SpecDoubleSubmit == InitDoubleSubmit /\ [][NextDoubleSubmit]_vars

\* the session after the two reviews were processed one after the other, p's first
Serially(p, q) ==
  LET start == ReviewReady(state.max_iterations)
      one == process_student_review(start, SubmittedText(p), submitters[p].ana, "ok")
  IN process_student_review(one, SubmittedText(q), submitters[q].ana, "ok")

BothDone == \A p \in Submitters : submitters[p].at = "done"

\* C31: two review submissions issued at once against one session are serialized:
\* when both have been processed the session is what processing them one after the
\* other, in one of the two orders, would have left, so current_iteration grew by
\* two, every entry has its analysis and no two entries share an iteration_number
C31_DoubleSubmitSerialized ==
  (explore = "double_submit" /\ BothDone)
    => /\ state \in {Serially("first", "second"), Serially("second", "first")}
       /\ state.current_iteration = 3
       /\ \A i \in 1..Len(state.review_history) :
            /\ state.review_history[i].analysis # None
            /\ state.review_history[i].iteration_number = i


ExtraErrors == get_field_value(state.evaluation_result, "extra_errors", <<>>)

\* C32: regenerate_code_node is entered only when the latest evaluation_result has
\* a non-empty missing_errors list; an evaluation that reports extra errors and no
\* missing error is routed to review, so the extra-errors branch of the decision
\* after evaluate never causes a regeneration by itself
C32_RegenerateOnlyOnMissing ==
  /\ pc = "regenerate_code"
       => (Truthy(state.evaluation_result) /\ Len(MissingErrors) > 0)
  /\ (AfterEvaluateDecision /\ Truthy(state.evaluation_result)
        /\ Len(ExtraErrors) > 0 /\ Len(MissingErrors) = 0)
       => decision = "review_code"


\* regenerate_code_node runs with an llm on the generator: it sends
\* state.code_generation_feedback, as it is when the node is entered, to llm.invoke
RegenerateInvokes == pc = "regenerate_code" /\ pc' = "evaluate_code" /\ wired.llm

\* C33: whenever regenerate_code_node invokes the generator, the prompt it sends is
\* not null and is the code_generation_feedback that the most recent
\* evaluate_code_node call, which ran on the snippet being replaced, wrote
C33_PromptIsLatestFeedback ==
  [][RegenerateInvokes
       => /\ state.code_generation_feedback # None
          /\ last.node = "evaluate_code"
          /\ ~last.failed]_vars


\* C34: every generate_code_node call that returns successfully starts a fresh
\* budget: evaluation_attempts is 0, evaluation_result and code_generation_feedback
\* are null and current_step is evaluate, whatever the fields held before the call
C34_GenerateStartsFreshBudget ==
  GenerateSucceeded
    => /\ state.evaluation_attempts = 0
       /\ state.evaluation_result = None
       /\ state.code_generation_feedback = None
       /\ state.current_step = "evaluate"

\* the call was the fallback of regenerate_code_node, made after an evaluation
\* had been stored and counted
C34_Witness ==
  /\ GenerateSucceeded
  /\ last.node = "regenerate_code"
  /\ evalRuns >= 1
  /\ allMissing
  /\ state.evaluation_attempts = 0


\* evaluate_code_node completed without error and the decision after it was taken
EvaluateCompletedAndRouted ==
  /\ AfterEvaluateDecision
  /\ last.node = "evaluate_code"
  /\ ~last.failed

\* C35: after every evaluate_code_node call that completes without error,
\* should_regenerate_or_review returns regenerate_code exactly when the node set
\* current_step to regenerate and review_code exactly when it set it to review
C35_NodeAndConditionAgree ==
  EvaluateCompletedAndRouted
    => /\ state.current_step \in {"regenerate", "review"}
       /\ decision = "regenerate_code" <=> state.current_step = "regenerate"
       /\ decision = "review_code" <=> state.current_step = "review"

\* the comparator answered with a dict without the missing_errors key and with
\* extra errors, below the attempt limit
C35_Witness ==
  /\ EvaluateCompletedAndRouted
  /\ last.raw # None
  /\ "missing_errors" \notin DOMAIN last.raw
  /\ state.evaluation_attempts < state.max_evaluation_attempts
  /\ decision = "review_code"


\* ------------------------------------------------------------------------
\* The review-completed tests of the user interface
\* ------------------------------------------------------------------------
create_enhanced_tabs_review_completed(s) ==
  LET latest_review == s.review_history[Len(s.review_history)]
      analysis == latest_review.analysis
      identified_count == get_field_value(analysis, "identified_count", 0)
      total_problems == get_field_value(analysis, "total_problems", 0)
  IN IF s.current_iteration > s.max_iterations THEN TRUE
     ELSE IF s.review_sufficient THEN TRUE
     ELSE IF s.review_history # <<>>
     THEN identified_count = total_problems /\ total_problems > 0
     ELSE FALSE

render_feedback_tab_review_completed(s) ==
  LET latest_review == s.review_history[Len(s.review_history)]
      analysis == latest_review.analysis
      identified_count == get_field_value(analysis, "identified_count", 0)
      total_problems == get_field_value(analysis, "total_problems", 0)
      by_state == IF s.current_iteration > s.max_iterations THEN TRUE
                  ELSE IF s.review_sufficient THEN TRUE
                  ELSE FALSE
  IN IF s.review_history # <<>> /\ Len(s.review_history) > 0
        /\ identified_count = total_problems /\ total_problems > 0
     THEN TRUE
     ELSE by_state

render_review_tab_refuses(s) ==
  LET review_analysis == IF s.review_history # <<>> /\ Len(s.review_history) > 0
                         THEN s.review_history[Len(s.review_history)].analysis
                         ELSE None
      identified_count == get_field_value(review_analysis, "identified_count", 0)
      total_problems == get_field_value(review_analysis, "total_problems", 0)
      all_errors_found == Truthy(review_analysis)
                            /\ identified_count = total_problems /\ total_problems > 0
      review_sufficient == IF all_errors_found THEN TRUE ELSE s.review_sufficient
  IN ~(s.current_iteration <= s.max_iterations /\ ~review_sufficient /\ ~all_errors_found)

\* C36: on every session state the four review-completion tests agree:
\* should_continue_review returns generate_summary exactly when create_enhanced_tabs
\* and render_feedback_tab compute review_completed = true, and exactly when
\* render_review_tab refuses a further submission
C36_CompletionTestsAgree ==
  LET summary == should_continue_review(state).decision = "generate_summary"
  IN /\ summary <=> create_enhanced_tabs_review_completed(state)
     /\ summary <=> render_feedback_tab_review_completed(state)
     /\ summary <=> render_review_tab_refuses(state)

\* an analysis that names every problem was stored without the sufficient flag,
\* below the iteration limit: the tests agree through their third case
C36_Witness ==
  /\ pc = "route_review"
  /\ last.node = "analyze_review" /\ last.wrote
  /\ ~state.review_sufficient
  /\ state.current_iteration <= state.max_iterations
  /\ render_review_tab_refuses(state)
  /\ create_enhanced_tabs_review_completed(state)
  /\ render_feedback_tab_review_completed(state)


\* C37: the workflow never clears session.error: no node handler and no decision
\* function resets it, so once set it stays non-null through every later step,
\* a later successful call of the node that set it included
C37_ErrorNeverCleared ==
  [][state.error # Null => state'.error # Null]_vars

\* evaluate_code_node failed, the graph went on through regenerate_code, and a
\* later evaluate_code_node call completed and stored its result: the error of
\* the failed call is still on the session
C37_Witness ==
  /\ last.node = "evaluate_code"
  /\ ~last.failed
  /\ last.wrote
  /\ state.error = "Error evaluating code"


\* a generate_code_node call, made by the graph or as the fallback of
\* regenerate_code_node, that ended in one of its error branches
GenerateFails ==
  /\ pc = "generate_code" \/ (pc = "regenerate_code" /\ ~wired.llm)
  /\ pc' = "evaluate_code"
  /\ last'.failed

\* C38: a generate_code_node call that fails leaves every session field other than
\* error and a newly chosen domain unchanged; code_snippet, original_error_count,
\* evaluation_attempts, evaluation_result and code_generation_feedback keep the
\* values they had before the call
C38_FailedGenerateKeepsSession ==
  [][GenerateFails
       => /\ state' = [state EXCEPT !.error = state'.error, !.domain = state'.domain]
          /\ state.domain # Null => state'.domain = state.domain]_vars

\* C38, amended: a generate_code_node call that fails leaves every session field
\* unchanged other than error, a newly chosen domain, and evaluation_attempts,
\* evaluation_result and code_generation_feedback, which it has reset to 0, null
\* and null; code_snippet, original_error_count and current_step keep their values
C38_FailedGenerateKeepsAllButBudget ==
  [][GenerateFails
       => /\ state' = [state EXCEPT !.error = state'.error,
                                    !.domain = state'.domain,
                                    !.evaluation_attempts = 0,
                                    !.evaluation_result = None,
                                    !.code_generation_feedback = None]
          /\ state.domain # Null => state'.domain = state.domain]_vars

\* the failing call was the fallback of regenerate_code_node on a session that had
\* a snippet and a counted evaluation: the snippet and its count are still there,
\* the attempts are back to 0
C38_Witness ==
  /\ last.node = "regenerate_code"
  /\ ~wired.llm
  /\ last.failed
  /\ pc = "evaluate_code"
  /\ evalRuns >= 1
  /\ allMissing
  /\ state.code_snippet # None
  /\ state.original_error_count > 0
  /\ state.evaluation_attempts = 0
  /\ state.evaluation_result = None


\* ------------------------------------------------------------------------
\* The graph that build_graph assembles
\* ------------------------------------------------------------------------
END == "__end__"

RegisteredNodes ==
  {"generate_code", "evaluate_code", "regenerate_code", "review_code", "analyze_review"}

StandardEdges ==
  {<<"generate_code", "evaluate_code">>,
   <<"regenerate_code", "evaluate_code">>,
   <<"review_code", "analyze_review">>,
   <<"generate_summary", END>>}

\* source, answer of the decision function, target
ConditionalEdges ==
  {<<"evaluate_code", "regenerate_code", "regenerate_code">>,
   <<"evaluate_code", "review_code", "review_code">>,
   <<"analyze_review", "continue_review", "review_code">>,
   <<"analyze_review", "generate_summary", "generate_summary">>}

EntryPoint == "generate_code"

GraphEdges == StandardEdges \cup {<<e[1], e[3]>> : e \in ConditionalEdges}

RECURSIVE ReachableFrom(_)
ReachableFrom(seen) ==
  LET more == seen \cup {e[2] : e \in {d \in GraphEdges : d[1] \in seen}}
  IN IF more = seen THEN seen ELSE ReachableFrom(more)

\* C39: the graph built by build_graph is well formed: the entry point and every
\* source and target of a standard or conditional edge is a node registered by
\* _add_nodes (or END), and every registered node and the generate_summary sink
\* can be reached from the entry point; so the node a run of the graph is at is
\* always a registered one
C39_GraphWellFormed ==
  /\ pc \notin {"route_evaluate", "route_review"} => pc \in RegisteredNodes
  /\ EntryPoint \in RegisteredNodes
  /\ \A e \in GraphEdges :
       /\ e[1] \in RegisteredNodes
       /\ e[2] \in RegisteredNodes \cup {END}
  /\ RegisteredNodes \cup {"generate_summary"} \subseteq ReachableFrom({EntryPoint})

====
